---- MODULE Spec2Model ----
(***************************************************************************)
(* Model of the Vivatech planner service: the date extractor and urgency   *)
(* classifier of src/src/tools.rs, the reference date of src/src/models.rs *)
(* and the startup / request handling of src/src/main.rs.                  *)
(*                                                                         *)
(* Text is a sequence of characters (one-character strings); the two       *)
(* regular expressions of extract_date_from_text are matched character by  *)
(* character with the leftmost-first semantics of the regex crate.         *)
(* Optional values are sequences: None is <<>>, Some(x) is <<x>>.          *)
(***************************************************************************)
EXTENDS Integers, Sequences, FiniteSets, TLC

\* ------------------------------------------------------------------ bounds

\* A text is the concatenation of at most MaxParts parts of Parts.
MaxParts == 3

\* An assess call is given at most MaxEvents events.
MaxEvents == 2

\* The agent runtime invokes at most MaxToolCalls tools while it answers one
\* prompt.
MaxToolCalls == 1

\* ------------------------------------------------------------- Option

None == << >>

Some(x) == << x >>

IsSome(o) == Len(o) = 1

Unwrap(o) == o[1]

\* ------------------------------------------------------------- characters

\* A decimal digit outside ASCII (ARABIC-INDIC DIGIT THREE): the regex crate's
\* \d is Unicode-aware, str::parse::<u32> accepts ASCII digits only.
ArabicThree == "U+0663"

AsciiDigits == {"0", "1", "2", "3", "4", "5", "6", "7", "8", "9"}

\* \d of the regex crate (Unicode decimal digits), on the model's alphabet.
IsDigit(c) == c \in AsciiDigits \cup {ArabicThree}

\* \s of the regex crate, on the model's alphabet.
IsSpace(c) == c \in {" ", "\t", "\n"}

DigitValue(c) ==
    CASE c = "0" -> 0 [] c = "1" -> 1 [] c = "2" -> 2 [] c = "3" -> 3
      [] c = "4" -> 4 [] c = "5" -> 5 [] c = "6" -> 6 [] c = "7" -> 7
      [] c = "8" -> 8 [] c = "9" -> 9

\* char::to_lowercase on the letters that occur in the model's alphabet.
LowerChar(c) ==
    CASE c = "J" -> "j" [] c = "F" -> "f" [] c = "M" -> "m" [] c = "A" -> "a"
      [] c = "S" -> "s" [] c = "O" -> "o" [] c = "N" -> "n" [] c = "D" -> "d"
      [] OTHER -> c

\* str::to_lowercase
to_lowercase(s) == [i \in 1..Len(s) |-> LowerChar(s[i])]

\* The alternation of month names in both patterns, in the order written.
MonthNames ==
    << <<"J","a","n","u","a","r","y">>,
       <<"F","e","b","r","u","a","r","y">>,
       <<"M","a","r","c","h">>,
       <<"A","p","r","i","l">>,
       <<"M","a","y">>,
       <<"J","u","n","e">>,
       <<"J","u","l","y">>,
       <<"A","u","g","u","s","t">>,
       <<"S","e","p","t","e","m","b","e","r">>,
       <<"O","c","t","o","b","e","r">>,
       <<"N","o","v","e","m","b","e","r">>,
       <<"D","e","c","e","m","b","e","r">> >>

\* The arms of the match in month_name_to_number, in the order written.
LowerMonthNames ==
    << <<"j","a","n","u","a","r","y">>,
       <<"f","e","b","r","u","a","r","y">>,
       <<"m","a","r","c","h">>,
       <<"a","p","r","i","l">>,
       <<"m","a","y">>,
       <<"j","u","n","e">>,
       <<"j","u","l","y">>,
       <<"a","u","g","u","s","t">>,
       <<"s","e","p","t","e","m","b","e","r">>,
       <<"o","c","t","o","b","e","r">>,
       <<"n","o","v","e","m","b","e","r">>,
       <<"d","e","c","e","m","b","e","r">> >>

\* The ordinal suffixes of pattern B: (?:st|nd|rd|th)
Suffixes == { <<"s","t">>, <<"n","d">>, <<"r","d">>, <<"t","h">> }

\* ------------------------------------------------------------- calendar

\* The year extract_month_day_date and extract_day_month_date build dates in.
ExtractYear == 2025

VIVATECH_YEAR == 2025

CURRENT_MONTH == 6

CURRENT_DAY == 11

IsLeapYear(y) == (y % 4 = 0 /\ y % 100 # 0) \/ y % 400 = 0

DaysInMonth(y, m) ==
    CASE m \in {1, 3, 5, 7, 8, 10, 12} -> 31
      [] m \in {4, 6, 9, 11} -> 30
      [] m = 2 -> IF IsLeapYear(y) THEN 29 ELSE 28

\* chrono::NaiveDate::from_ymd_opt: None unless (y, m, d) is a calendar date.
from_ymd_opt(y, m, d) ==
    IF m \in 1..12 /\ d >= 1 /\ d <= DaysInMonth(y, m)
    THEN Some([y |-> y, m |-> m, d |-> d])
    ELSE None

RECURSIVE DaysBeforeMonth(_, _)
DaysBeforeMonth(y, m) ==
    IF m = 1 THEN 0 ELSE DaysBeforeMonth(y, m - 1) + DaysInMonth(y, m - 1)

\* Days from 0001-01-01 (proleptic Gregorian) to the date.
DayNumber(date) ==
    LET p == date.y - 1
    IN  365 * p + (p \div 4) - (p \div 100) + (p \div 400)
        + DaysBeforeMonth(date.y, date.m) + date.d

\* (a - b).num_days() on NaiveDate
num_days(a, b) == DayNumber(a) - DayNumber(b)

\* ------------------------------------------------------------- regex

\* The word w occurs in text at position i.
HasAt(text, i, w) ==
    /\ i >= 1
    /\ i + Len(w) - 1 <= Len(text)
    /\ \A k \in 1..Len(w) : text[i + k - 1] = w[k]

\* The length of the longest run of whitespace that starts at position j (\s+ is
\* greedy; what follows it in both patterns is no whitespace, so the longest run
\* is the only one that can match).
SpacesFrom(text, j) ==
    CHOOSE n \in 0..Len(text) :
        /\ \A k \in 0..(n - 1) : j + k <= Len(text) /\ IsSpace(text[j + k])
        /\ ~(j + n <= Len(text) /\ IsSpace(text[j + n]))

\* The months of the alternation whose name occurs at position i.
MonthsAt(text, i) == {k \in 1..Len(MonthNames) : HasAt(text, i, MonthNames[k])}

\* The least element of a set of numbers: the leftmost position, the first
\* alternative.
MinOf(S) == CHOOSE m \in S : \A o \in S : m <= o

\* \d{1,2} at position p, greedy: two digits when the second is there.
DigitsAt(text, p) ==
    IF p > Len(text) \/ ~IsDigit(text[p]) THEN 0
    ELSE IF p + 1 <= Len(text) /\ IsDigit(text[p + 1]) THEN 2
    ELSE 1

\* Pattern A, (Month)\s+(\d{1,2}), anchored at position i, step by step: the
\* day's digits at position p ...
MonthDayDigits(text, i, name, p) ==
    IF DigitsAt(text, p) >= 1
    THEN Some([at |-> i, month |-> name,
               day |-> SubSeq(text, p, p + DigitsAt(text, p) - 1)])
    ELSE None

\* ... after the whitespace that starts at position j ...
MonthDaySpaces(text, i, name, j) ==
    IF SpacesFrom(text, j) >= 1
    THEN MonthDayDigits(text, i, name, j + SpacesFrom(text, j))
    ELSE None

\* ... after the month name at position i: the captures, or None.
MonthDayAt(text, i) ==
    IF MonthsAt(text, i) = {} THEN None
    ELSE MonthDaySpaces(text, i, MonthNames[MinOf(MonthsAt(text, i))],
                        i + Len(MonthNames[MinOf(MonthsAt(text, i))]))

\* Pattern B, (\d{1,2})(?:st|nd|rd|th)?\s+(Month), anchored at position i,
\* matches as n digits, a suffix of length f (0: none), whitespace, a month.
DayMonthMatches(text, i, n, f) ==
    /\ i + n - 1 <= Len(text)
    /\ \A k \in 0..(n - 1) : IsDigit(text[i + k])
    /\ f = 2 => \E w \in Suffixes : HasAt(text, i + n, w)
    /\ SpacesFrom(text, i + n + f) >= 1
    /\ MonthsAt(text, i + n + f + SpacesFrom(text, i + n + f)) # {}

DayMonthSplits(text, i) ==
    {c \in {1, 2} \X {0, 2} : DayMonthMatches(text, i, c[1], c[2])}

\* The split the regex prefers: greedy, so more digits, then the suffix.
BestSplit(cs) ==
    CHOOSE x \in cs : \A o \in cs : x[1] > o[1] \/ (x[1] = o[1] /\ x[2] >= o[2])

\* The captures of the match of n digits at i whose whitespace starts at j.
DayMonthCaptures(text, i, n, j) ==
    Some([at |-> i,
          day |-> SubSeq(text, i, i + n - 1),
          month |-> MonthNames[MinOf(MonthsAt(text, j + SpacesFrom(text, j)))]])

DayMonthWith(text, i, c) == DayMonthCaptures(text, i, c[1], i + c[1] + c[2])

DayMonthAt(text, i) ==
    IF DayMonthSplits(text, i) = {} THEN None
    ELSE DayMonthWith(text, i, BestSplit(DayMonthSplits(text, i)))

\* The positions where pattern A, pattern B match.
MonthDayPositions(text) == {i \in 1..Len(text) : IsSome(MonthDayAt(text, i))}

DayMonthPositions(text) == {i \in 1..Len(text) : IsSome(DayMonthAt(text, i))}

\* The greatest element of a set of numbers.
MaxOf(S) == CHOOSE m \in S : \A o \in S : m >= o

\* Mutant of month_day_captures: the last match instead of the leftmost.
month_day_captures_last(text) ==
    IF MonthDayPositions(text) = {} THEN None
    ELSE MonthDayAt(text, MaxOf(MonthDayPositions(text)))

\* Regex::captures with pattern A: the leftmost match, or None.
month_day_captures(text) ==
    IF MonthDayPositions(text) = {} THEN None
    ELSE MonthDayAt(text, MinOf(MonthDayPositions(text)))

\* Regex::captures with pattern B: the leftmost match, or None.
day_month_captures(text) ==
    IF DayMonthPositions(text) = {} THEN None
    ELSE DayMonthAt(text, MinOf(DayMonthPositions(text)))

\* ------------------------------------------------------------- date extractor

\* The arm of the match that the lower-cased name selects.
MonthArm(low) ==
    IF \E k \in 1..Len(LowerMonthNames) : LowerMonthNames[k] = low
    THEN Some(CHOOSE k \in 1..Len(LowerMonthNames) : LowerMonthNames[k] = low)
    ELSE None

month_name_to_number(month) == MonthArm(to_lowercase(month))

\* The number a string of ASCII digits writes in base ten.
RECURSIVE DecimalValue(_)
DecimalValue(s) ==
    IF Len(s) = 0 THEN 0
    ELSE 10 * DecimalValue(SubSeq(s, 1, Len(s) - 1)) + DigitValue(s[Len(s)])

\* str::parse::<u32> on a string without sign, too short to overflow: an error
\* on the empty string and on any character that is no ASCII digit.
parse_u32(s) ==
    IF s = << >> \/ \E k \in 1..Len(s) : s[k] \notin AsciiDigits THEN None
    ELSE Some(DecimalValue(s))

\* The ? operator on both options, then NaiveDate::from_ymd_opt(2025, ..).
DateOf(month_num, day) ==
    IF ~IsSome(month_num) \/ ~IsSome(day) THEN None
    ELSE from_ymd_opt(ExtractYear, Unwrap(month_num), Unwrap(day))

\* The day, or the month's last day when the day is past it.
ClampDay(month_num, day) ==
    IF IsSome(month_num) /\ IsSome(day)
       /\ Unwrap(day) > DaysInMonth(ExtractYear, Unwrap(month_num))
    THEN Some(DaysInMonth(ExtractYear, Unwrap(month_num)))
    ELSE day

\* Mutant of extract_month_day_date: a day past the month's end is clamped to it.
extract_month_day_date_clamped(captures) ==
    DateOf(month_name_to_number(captures.month),
           ClampDay(month_name_to_number(captures.month), parse_u32(captures.day)))

extract_month_day_date(captures) ==
    DateOf(month_name_to_number(captures.month), parse_u32(captures.day))

\* Mutant of extract_day_month_date: the groups are read in pattern A's order
\* (group 1 as the month, group 2 as the day).
extract_day_month_date_swapped(captures) ==
    DateOf(month_name_to_number(captures.day), parse_u32(captures.month))

extract_day_month_date(captures) ==
    DateOf(month_name_to_number(captures.month), parse_u32(captures.day))

\* if let Some(captures) = regex.captures(text) { extract_month_day_date(..) }
MonthDayResolve(captures) ==
    IF IsSome(captures) THEN extract_month_day_date(Unwrap(captures)) ELSE None

DayMonthResolve(captures) ==
    IF IsSome(captures) THEN extract_day_month_date(Unwrap(captures)) ELSE None

\* The date pattern A resolves to: its leftmost match, built into a date.
MonthDayDate(text) == MonthDayResolve(month_day_captures(text))

\* The date pattern B resolves to.
DayMonthDate(text) == DayMonthResolve(day_month_captures(text))

\* `first` when it is a date (return Some(date)), else what comes next.
OrElse(first, next) == IF IsSome(first) THEN first ELSE next

extract_date_from_text(text) == OrElse(MonthDayDate(text), DayMonthDate(text))

\* ------------------------------------------------------------- urgency

Immediate == "Immediate"

Soon == "Soon"

Normal == "Normal"

\* A description is its format string and the arguments formatted into it.
Desc(fmt, args) == [fmt |-> fmt, args |-> args]

DescToday == Desc("This event is happening TODAY - immediate action required!", << >>)

DescTomorrow == Desc("This event is happening TOMORROW - plan accordingly.", << >>)

DescInDays(d) == Desc("This event is in {} days - normal priority.", << d >>)

DescPassed == Desc("This event has already passed.", << >>)

DescNoDate == Desc("No specific date found - treating as normal priority.", << >>)

\* Mutant of UrgencyOfDays: the guard d > 0 is tried before the arm for 1.
UrgencyOfDaysGuardFirst(days_until_event) ==
    IF days_until_event = 0 THEN << Immediate, DescToday >>
    ELSE IF days_until_event > 0 THEN << Normal, DescInDays(days_until_event) >>
    ELSE IF days_until_event = 1 THEN << Soon, DescTomorrow >>
    ELSE << Normal, DescPassed >>

\* match days_until_event { 0 => .., 1 => .., d if d > 0 => .., _ => .. }
UrgencyOfDays(days_until_event) ==
    IF days_until_event = 0 THEN << Immediate, DescToday >>
    ELSE IF days_until_event = 1 THEN << Soon, DescTomorrow >>
    ELSE IF days_until_event > 0 THEN << Normal, DescInDays(days_until_event) >>
    ELSE << Normal, DescPassed >>

\* match extract_date_from_text(text) { Some(event_date) => .., None => .. }
UrgencyOfDate(found, current_date) ==
    IF IsSome(found) THEN UrgencyOfDays(num_days(Unwrap(found), current_date))
    ELSE << Normal, DescNoDate >>

analyze_event_urgency(text, current_date) ==
    UrgencyOfDate(extract_date_from_text(text), current_date)

\* ------------------------------------------------------------- inputs

\* The pieces the checked texts are built from: date mentions of both patterns
\* (valid, day 0, lower-case, a day in non-ASCII digits) and single characters
\* that join, split or extend them ("June 3" and "1" make "June 31").
Parts ==
    { <<"J","u","n","e"," ","1","2">>,
      <<"1","2","t","h"," ","J","u","n","e">>,
      <<"J","u","n","e"," ","3">>,
      <<"J","u","n","e"," ","0">>,
      <<"D","e","c","e","m","b","e","r"," ","2","5">>,
      <<"j","u","n","e"," ","1","2">>,
      <<"J","u","n","e"," ", ArabicThree>>,
      <<" ">>,
      <<"1">> }

RECURSIVE TextsUpTo(_)
TextsUpTo(n) ==
    IF n = 0 THEN { << >> }
    ELSE LET shorter == TextsUpTo(n - 1)
         IN  shorter \cup {t \o p : t \in shorter, p \in Parts}

Texts == TextsUpTo(MaxParts)

\* Reference dates: the built-in default, a day late in the year, and a day of
\* the year before (a leap year, before its 29 February).
RefDates ==
    { [y |-> 2025, m |-> 6, d |-> 11],
      [y |-> 2025, m |-> 12, d |-> 25],
      [y |-> 2024, m |-> 2, d |-> 28] }

\* ------------------------------------------------------------- configuration

\* A configuration value is a text. A text of the shape <number>-<number>-<number>
\* is kept by its numbers, any other text by its words.
DateText(y, m, d) == [shape |-> "Y-M-D", y |-> y, m |-> m, d |-> d]

WordsText(w) == [shape |-> w, y |-> 0, m |-> 0, d |-> 0]

\* NaiveDate::parse_from_str(text, "%Y-%m-%d"): the date, or None for a text of
\* another shape or numbers that are no calendar date.
parse_from_str(text) ==
    IF text.shape = "Y-M-D" THEN from_ymd_opt(text.y, text.m, text.d) ELSE None

\* str::parse::<u64> on the timeout's text (without sign, too short to overflow).
parse_u64(s) ==
    IF s = << >> \/ \E k \in 1..Len(s) : s[k] \notin AsciiDigits THEN None
    ELSE Some(DecimalValue(s))

\* The process environment, and the secret store, hold an optional value per key.
Unset ==
    [OPENAI_API_KEY |-> None, VIVATECH_API_URL |-> None,
     API_TIMEOUT_SECONDS |-> None, CONFERENCE_DATE |-> None]

\* The secret stores the service is started with.
SecretStores ==
    [OPENAI_API_KEY : {None, Some("sk-test")},
     VIVATECH_API_URL : {None, Some("https://vivatech.example/query")},
     API_TIMEOUT_SECONDS : {None, Some(<<"5">>)},
     CONFERENCE_DATE : {None, Some(DateText(2025, 6, 12)), Some(DateText(2025, 2, 30)),
                        Some(WordsText("tomorrow"))}]

\* The environments the process inherits: nothing set, or a conference date.
InheritedEnvs == {Unset, [Unset EXCEPT !.CONFERENCE_DATE = Some(DateText(2025, 12, 25))]}

\* Mutant of get_current_conference_date: the override is never read.
get_current_conference_date_builtin(e) ==
    Unwrap(from_ymd_opt(VIVATECH_YEAR, CURRENT_MONTH, CURRENT_DAY))

\* get_current_conference_date
get_current_conference_date(e) ==
    IF IsSome(e.CONFERENCE_DATE) /\ IsSome(parse_from_str(Unwrap(e.CONFERENCE_DATE)))
    THEN Unwrap(parse_from_str(Unwrap(e.CONFERENCE_DATE)))
    ELSE Unwrap(from_ymd_opt(VIVATECH_YEAR, CURRENT_MONTH, CURRENT_DAY))

\* Result<T, E>: Ok(value) or Err(error).
Ok(value) == [ok |-> TRUE, value |-> value, error |-> ""]

Err(error) == [ok |-> FALSE, value |-> << >>, error |-> error]

\* get_vivatech_api_url
get_vivatech_api_url(e) ==
    IF IsSome(e.VIVATECH_API_URL) THEN Ok(Unwrap(e.VIVATECH_API_URL))
    ELSE Err("VIVATECH_API_URL not found in environment")

DefaultTimeoutSeconds == 30

\* get_api_timeout_seconds
get_api_timeout_seconds(e) ==
    IF IsSome(e.API_TIMEOUT_SECONDS) /\ IsSome(parse_u64(Unwrap(e.API_TIMEOUT_SECONDS)))
    THEN Unwrap(parse_u64(Unwrap(e.API_TIMEOUT_SECONDS)))
    ELSE DefaultTimeoutSeconds

\* if let Some(v) = secret_store.get(key) { std::env::set_var(key, v) }
SetFrom(secret, current) == IF IsSome(secret) THEN secret ELSE current

\* configure_api_keys: the environment it leaves.
configure_api_keys(e, store) ==
    [OPENAI_API_KEY |-> SetFrom(store.OPENAI_API_KEY, e.OPENAI_API_KEY),
     VIVATECH_API_URL |-> SetFrom(store.VIVATECH_API_URL, e.VIVATECH_API_URL),
     API_TIMEOUT_SECONDS |-> SetFrom(store.API_TIMEOUT_SECONDS, e.API_TIMEOUT_SECONDS),
     CONFERENCE_DATE |-> SetFrom(store.CONFERENCE_DATE, e.CONFERENCE_DATE)]

\* Mutant of validate_required_configuration: only the OpenAI key is required.
validate_required_configuration_key_only(e) ==
    IF ~IsSome(e.OPENAI_API_KEY)
    THEN Err("Missing required configuration: OPENAI_API_KEY")
    ELSE Ok(<< >>)

\* validate_required_configuration
validate_required_configuration(e) ==
    IF ~IsSome(e.OPENAI_API_KEY)
    THEN Err("Missing required configuration: OPENAI_API_KEY")
    ELSE IF ~IsSome(e.VIVATECH_API_URL)
    THEN Err("Missing required configuration: VIVATECH_API_URL")
    ELSE Ok(<< >>)

\* ------------------------------------------------------------- tools' data

QueryVivatechAPI == "query_vivatech_api"

AssessTimeliness == "assess_event_timeliness"

\* VivatechSource
Source(id, table, score, text) ==
    [id |-> id, source_table |-> table, score |-> score, text_chunk |-> text]

\* The events an assess call is given (a list may repeat one, and so its id): a
\* date in one text and none in the other.
Events ==
    { Source("a", "sessions", 1, <<"J","u","n","e"," ","1","2">>),
      Source("b", "", 0, <<"J","u","n","e"," ","3","1">>) }

RECURSIVE SeqsUpTo(_, _)
SeqsUpTo(S, n) ==
    IF n = 0 THEN { << >> }
    ELSE LET shorter == SeqsUpTo(S, n - 1)
         IN  shorter \cup {Append(q, x) : q \in shorter, x \in S}

EventLists == SeqsUpTo(Events, MaxEvents)

\* A source object of a response body: each member present (Some) or missing.
RawFull ==
    [id |-> Some("s1"), source_table |-> Some("sessions"), score |-> Some(1),
     text_chunk |-> Some(<<"J","u","n","e"," ","1","2">>)]

RawBare ==
    [id |-> Some("s2"), source_table |-> None, score |-> None,
     text_chunk |-> Some(<<"1","2","t","h"," ","J","u","n","e">>)]

RawNoId ==
    [id |-> None, source_table |-> None, score |-> None,
     text_chunk |-> Some(<<" ">>)]

\* A response body: JSON or not, with or without its answer and metadata.
Body(json, answer, metadata, sources) ==
    [json |-> json, answer |-> answer, metadata |-> metadata, sources |-> sources]

Bodies ==
    { Body(TRUE, TRUE, TRUE, << RawFull, RawBare >>),
      Body(TRUE, TRUE, TRUE, << RawBare, RawFull >>),
      Body(TRUE, TRUE, FALSE, << RawFull >>),
      Body(TRUE, TRUE, TRUE, << RawNoId >>),
      Body(FALSE, FALSE, FALSE, << >>) }

\* What the network gives one request: no response (the connection fails or
\* the timeout passes), or a status and a body.
Responses ==
    { [transport |-> "failed", status |-> 0, body |-> Body(FALSE, FALSE, FALSE, << >>)] }
    \cup { [transport |-> "ok", status |-> 200, body |-> b] : b \in Bodies }
    \cup { [transport |-> "ok", status |-> st,
            body |-> Body(TRUE, TRUE, TRUE, << RawFull, RawBare >>)] : st \in {404, 500} }

\* StatusCode::is_success
is_success(status) == status >= 200 /\ status < 300

\* #[serde(default)]
OrDefault(o, default) == IF IsSome(o) THEN Unwrap(o) ELSE default

\* Deserialize of VivatechSource: id and text_chunk are required.
SourceDeserializes(raw) == IsSome(raw.id) /\ IsSome(raw.text_chunk)

SourceOf(raw) ==
    Source(Unwrap(raw.id), OrDefault(raw.source_table, ""), OrDefault(raw.score, 0),
           Unwrap(raw.text_chunk))

\* parse_api_response::<VivatechQueryResponse>: answer, sources and metadata are
\* required.
parse_api_response(body) ==
    IF /\ body.json
       /\ body.answer
       /\ body.metadata
       /\ \A i \in 1..Len(body.sources) : SourceDeserializes(body.sources[i])
    THEN Ok([sources |-> [i \in 1..Len(body.sources) |-> SourceOf(body.sources[i])]])
    ELSE Err("Failed to parse JSON response")

\* TimelinessResult
TimelinessResult(event, analysis) ==
    [source_id |-> event.id, urgency |-> analysis[1], description |-> analysis[2]]

\* ------------------------------------------------------------- state

\* The tasks that run concurrently: request handlers, or direct callers of the
\* tools.
Tasks == {"t1", "t2"}

VARIABLES
    sample,        \* the classifier's input under check: [text, current_date]
    verdict,       \* None, or Some of what the extractor and the classifier returned
    secret_store,  \* the SecretStore the service is started with
    env,           \* the process environment (std::env)
    phase,         \* "init", "configured", "serving", "panicked"
    req,           \* per task: the /generate-plan request it handles
    call           \* per task: the tool call it runs

vars == << sample, verdict, secret_store, env, phase, req, call >>

NoSample == [text |-> << >>, current_date |-> [y |-> 2025, m |-> 6, d |-> 11]]

IdleReq == [pc |-> "idle", objective |-> << >>, tools |-> {}, ncalls |-> 0,
            response |-> None]

\* The task neither handles a request nor runs a tool call.
Free(t) == req[t].pc = "idle" /\ call[t].pc = "idle"

IdleCall == [pc |-> "idle", tool |-> "none", args |-> << >>, date |-> None,
             results |-> << >>, timeout |-> 0, sent |-> 0, response |-> None,
             output |-> None]

\* ------------------------------------------------------------- classifier alone

InitDate ==
    /\ sample \in [text : Texts, current_date : RefDates]
    /\ verdict = None
    /\ secret_store = Unset
    /\ env = Unset
    /\ phase = "init"
    /\ req = [t \in Tasks |-> IdleReq]
    /\ call = [t \in Tasks |-> IdleCall]

\* extract_date_from_text and analyze_event_urgency applied to the sample.
Classify ==
    /\ verdict = None
    /\ verdict' = Some([date |-> extract_date_from_text(sample.text),
                        urgency |-> analyze_event_urgency(sample.text, sample.current_date)[1],
                        description |-> analyze_event_urgency(sample.text, sample.current_date)[2]])
    /\ UNCHANGED << sample, secret_store, env, phase, req, call >>

NextDate == Classify

SpecDate == InitDate /\ [][NextDate]_vars

\* ------------------------------------------------------------- startup

InitService ==
    /\ sample = NoSample
    /\ verdict = None
    /\ secret_store \in SecretStores
    /\ env \in InheritedEnvs
    /\ phase = "init"
    /\ req = [t \in Tasks |-> IdleReq]
    /\ call = [t \in Tasks |-> IdleCall]

\* axum: configure_api_keys(&secret_store)
ConfigureApiKeys ==
    /\ phase = "init"
    /\ env' = configure_api_keys(env, secret_store)
    /\ phase' = "configured"
    /\ UNCHANGED << sample, verdict, secret_store, req, call >>

\* axum: validate_required_configuration, then panic! or build_router
ValidateAndBuildRouter ==
    /\ phase = "configured"
    /\ phase' = IF validate_required_configuration(env).ok THEN "serving" ELSE "panicked"
    /\ UNCHANGED << sample, verdict, secret_store, env, req, call >>

\* ------------------------------------------------------------- tool calls

\* Tool::call is entered with its arguments.
StartCall(tool, args) == [IdleCall EXCEPT !.pc = "called", !.tool = tool, !.args = args]

Finished(c, result) == [c EXCEPT !.pc = "done", !.output = Some(result)]

\* The arguments a tool is called with.
ArgsFor(tool) ==
    IF tool = QueryVivatechAPI THEN { << [query |-> "ai"] >> } ELSE EventLists

\* QueryVivatechAPI::call up to the request: create_http_client()? (the builder
\* succeeds or, when the TLS backend cannot be set up, fails), then
\* get_vivatech_api_url()?
QueryPrepare(t) ==
    /\ call[t].pc = "called"
    /\ call[t].tool = QueryVivatechAPI
    /\ \E built \in BOOLEAN :
          call' = [call EXCEPT ![t] =
                      IF ~built THEN Finished(@, Err("Failed to create HTTP client"))
                      ELSE IF ~get_vivatech_api_url(env).ok
                      THEN Finished(@, get_vivatech_api_url(env))
                      ELSE [@ EXCEPT !.pc = "sending",
                                     !.timeout = get_api_timeout_seconds(env)]]
    /\ UNCHANGED << sample, verdict, secret_store, env, phase, req >>

\* make_api_request: client.post(url).json(body).send()
QuerySend(t) ==
    /\ call[t].pc = "sending"
    /\ call' = [call EXCEPT ![t] = [@ EXCEPT !.pc = "awaiting", !.sent = @ + 1]]
    /\ UNCHANGED << sample, verdict, secret_store, env, phase, req >>

\* Mutant of QueryResponse: the status is not checked.
QueryResponseAnyStatus(t) ==
    /\ call[t].pc = "awaiting"
    /\ \E resp \in Responses :
          call' = [call EXCEPT ![t] =
                      IF resp.transport # "ok"
                      THEN Finished([@ EXCEPT !.response = Some(resp)],
                                    Err("HTTP request failed"))
                      ELSE [@ EXCEPT !.pc = "parsing", !.response = Some(resp)]]
    /\ UNCHANGED << sample, verdict, secret_store, env, phase, req >>

\* make_api_request after the await: the transport's error, or the status check.
QueryResponse(t) ==
    /\ call[t].pc = "awaiting"
    /\ \E resp \in Responses :
          call' = [call EXCEPT ![t] =
                      IF resp.transport # "ok"
                      THEN Finished([@ EXCEPT !.response = Some(resp)],
                                    Err("HTTP request failed"))
                      ELSE IF ~is_success(resp.status)
                      THEN Finished([@ EXCEPT !.response = Some(resp)],
                                    Err("API returned error status"))
                      ELSE [@ EXCEPT !.pc = "parsing", !.response = Some(resp)]]
    /\ UNCHANGED << sample, verdict, secret_store, env, phase, req >>

\* The value QueryVivatechAPI::call returns once the body is read.
QueryResult(parsed) == IF parsed.ok THEN Ok(parsed.value.sources) ELSE parsed

\* parse_api_response(response).await?, then Ok(api_response.sources)
QueryBody(t) ==
    /\ call[t].pc = "parsing"
    /\ call' = [call EXCEPT ![t] =
                   Finished(@, QueryResult(parse_api_response(Unwrap(@.response).body)))]
    /\ UNCHANGED << sample, verdict, secret_store, env, phase, req >>

\* Mutant of AssessBegin: the date it read is written back to the environment.
AssessBeginCaching(t) ==
    /\ call[t].pc = "called"
    /\ call[t].tool = AssessTimeliness
    /\ call' = [call EXCEPT ![t] =
                   [@ EXCEPT !.pc = "looping",
                             !.date = Some(get_current_conference_date(env)),
                             !.results = << >>]]
    /\ env' = [env EXCEPT !.CONFERENCE_DATE =
                  Some(DateText(get_current_conference_date(env).y,
                                get_current_conference_date(env).m,
                                get_current_conference_date(env).d))]
    /\ UNCHANGED << sample, verdict, secret_store, phase, req >>

\* AssessTimeliness::call: let current_date = get_current_conference_date();
\* let mut results = Vec::new();
AssessBegin(t) ==
    /\ call[t].pc = "called"
    /\ call[t].tool = AssessTimeliness
    /\ call' = [call EXCEPT ![t] =
                   [@ EXCEPT !.pc = "looping",
                             !.date = Some(get_current_conference_date(env)),
                             !.results = << >>]]
    /\ UNCHANGED << sample, verdict, secret_store, env, phase, req >>

\* One turn of `for event in args.events`: analyze, then results.push(..)
AssessEvent(t) ==
    /\ call[t].pc = "looping"
    /\ Len(call[t].results) < Len(call[t].args)
    /\ call' = [call EXCEPT ![t] =
                   [@ EXCEPT !.results =
                       Append(@, TimelinessResult(
                                     call[t].args[Len(call[t].results) + 1],
                                     analyze_event_urgency(
                                         call[t].args[Len(call[t].results) + 1].text_chunk,
                                         Unwrap(call[t].date))))]]
    /\ UNCHANGED << sample, verdict, secret_store, env, phase, req >>

\* Mutant of AssessReturn: a call in which an event has no date fails with
\* DateParseError.
AssessReturnStrict(t) ==
    /\ call[t].pc = "looping"
    /\ Len(call[t].results) = Len(call[t].args)
    /\ call' = [call EXCEPT ![t] =
                   IF \E i \in 1..Len(@.results) : @.results[i].description = DescNoDate
                   THEN Finished(@, Err("Failed to parse date from event text"))
                   ELSE Finished(@, Ok(@.results))]
    /\ UNCHANGED << sample, verdict, secret_store, env, phase, req >>

\* Ok(results)
AssessReturn(t) ==
    /\ call[t].pc = "looping"
    /\ Len(call[t].results) = Len(call[t].args)
    /\ call' = [call EXCEPT ![t] = Finished(@, Ok(@.results))]
    /\ UNCHANGED << sample, verdict, secret_store, env, phase, req >>

\* ------------------------------------------------------------- the tools, called directly

\* A free task enters Tool::call of either tool, in a process whose environment
\* configure_api_keys has filled.
DirectCall(t) ==
    /\ phase \in {"configured", "serving"}
    /\ Free(t)
    /\ \E tool \in {QueryVivatechAPI, AssessTimeliness} :
          \E args \in ArgsFor(tool) :
              call' = [call EXCEPT ![t] = StartCall(tool, args)]
    /\ UNCHANGED << sample, verdict, secret_store, env, phase, req >>

\* The caller takes the call's result.
TakeResult(t) ==
    /\ req[t].pc = "idle"
    /\ call[t].pc = "done"
    /\ call' = [call EXCEPT ![t] = IdleCall]
    /\ UNCHANGED << sample, verdict, secret_store, env, phase, req >>

\* The OpenAI key plays no part in the tools: it is set.
InitTools == InitService /\ IsSome(secret_store.OPENAI_API_KEY)

NextTools ==
    \/ ConfigureApiKeys
    \/ \E t \in Tasks :
          \/ DirectCall(t)
          \/ QueryPrepare(t)
          \/ QuerySend(t)
          \/ QueryResponse(t)
          \/ QueryBody(t)
          \/ AssessBegin(t)
          \/ AssessEvent(t)
          \/ AssessReturn(t)
          \/ TakeResult(t)

SpecTools == InitTools /\ [][NextTools]_vars

\* ------------------------------------------------------------- the service

\* The objectives of the checked requests: one asks for the simple test mode.
Objectives ==
    { <<"t","e","s","t"," ","s","i","m","p","l","e">>,
      <<"p","l","a","n"," ","J","u","n","e"," ","1","2">> }

WordTestSimple == <<"t","e","s","t"," ","s","i","m","p","l","e">>

\* str::contains
contains(text, w) == \E i \in 1..Len(text) : HasAt(text, i, w)

\* initialize_openai_client
initialize_openai_client(e) ==
    IF IsSome(e.OPENAI_API_KEY) THEN Ok("client")
    ELSE Err("OPENAI_API_KEY not found in environment")

\* build_planning_agent: the tools its builder is given (.tool(..) calls).
build_planning_agent == { QueryVivatechAPI }

\* generate_plan_handler up to its first await: the client, then the simple
\* test mode (an agent without tools) or the planning agent.
GeneratePlan(t) ==
    /\ phase = "serving"
    /\ Free(t)
    /\ \E objective \in Objectives :
          req' = [req EXCEPT ![t] =
                     IF ~initialize_openai_client(env).ok
                     THEN [@ EXCEPT !.pc = "done", !.objective = objective,
                                    !.response = Some("Error: Failed to initialize AI service")]
                     ELSE IF contains(objective, WordTestSimple)
                     THEN [@ EXCEPT !.pc = "simple", !.objective = objective, !.tools = {}]
                     ELSE [@ EXCEPT !.pc = "planning", !.objective = objective,
                                    !.tools = build_planning_agent]]
    /\ UNCHANGED << sample, verdict, secret_store, env, phase, call >>

\* simple_agent.prompt(..).await: the completion, or its error.
SimpleReply(t) ==
    /\ req[t].pc = "simple"
    /\ \E answered \in BOOLEAN :
          req' = [req EXCEPT ![t] =
                     [@ EXCEPT !.pc = "done",
                               !.response = IF answered THEN Some("completion")
                                            ELSE Some("Error: Simple agent failed")]]
    /\ UNCHANGED << sample, verdict, secret_store, env, phase, call >>

\* While it answers agent.prompt(objective), the agent runtime invokes one of
\* the agent's tools.
AgentCallsTool(t) ==
    /\ req[t].pc = "planning"
    /\ call[t].pc = "idle"
    /\ req[t].ncalls < MaxToolCalls
    /\ \E tool \in req[t].tools :
          \E args \in ArgsFor(tool) :
              call' = [call EXCEPT ![t] = StartCall(tool, args)]
    /\ req' = [req EXCEPT ![t] = [@ EXCEPT !.ncalls = @ + 1]]
    /\ UNCHANGED << sample, verdict, secret_store, env, phase >>

\* The runtime takes the tool's result back into the conversation.
AgentTakesResult(t) ==
    /\ req[t].pc = "planning"
    /\ call[t].pc = "done"
    /\ call' = [call EXCEPT ![t] = IdleCall]
    /\ UNCHANGED << sample, verdict, secret_store, env, phase, req >>

\* execute_planning_task: agent.prompt(objective).await ends with the plan, or
\* with an error that becomes the "Error: ..." text.
AgentReply(t) ==
    /\ req[t].pc = "planning"
    /\ call[t].pc = "idle"
    /\ \E answered \in BOOLEAN :
          req' = [req EXCEPT ![t] =
                     [@ EXCEPT !.pc = "done",
                               !.response = IF answered THEN Some("plan")
                                            ELSE Some("Error: Failed to generate plan")]]
    /\ UNCHANGED << sample, verdict, secret_store, env, phase, call >>

\* The handler returns its String: the response is sent.
Respond(t) ==
    /\ req[t].pc = "done"
    /\ req' = [req EXCEPT ![t] = IdleReq]
    /\ UNCHANGED << sample, verdict, secret_store, env, phase, call >>

Next ==
    \/ ConfigureApiKeys
    \/ ValidateAndBuildRouter
    \/ \E t \in Tasks :
          \/ GeneratePlan(t)
          \/ SimpleReply(t)
          \/ AgentCallsTool(t)
          \/ QueryPrepare(t)
          \/ QuerySend(t)
          \/ QueryResponse(t)
          \/ QueryBody(t)
          \/ AgentTakesResult(t)
          \/ AgentReply(t)
          \/ Respond(t)

Spec == InitService /\ [][Next]_vars

\* ------------------------------------------------------------- the service and direct calls

\* The service with, beside its request handlers, tasks that call the tools
\* directly: a task handles a request while the other one runs either tool.
NextAll ==
    \/ ConfigureApiKeys
    \/ ValidateAndBuildRouter
    \/ \E t \in Tasks :
          \/ GeneratePlan(t)
          \/ SimpleReply(t)
          \/ AgentCallsTool(t)
          \/ DirectCall(t)
          \/ QueryPrepare(t)
          \/ QuerySend(t)
          \/ QueryResponse(t)
          \/ QueryBody(t)
          \/ AssessBegin(t)
          \/ AssessEvent(t)
          \/ AssessReturn(t)
          \/ AgentTakesResult(t)
          \/ TakeResult(t)
          \/ AgentReply(t)
          \/ Respond(t)

SpecAll == InitTools /\ [][NextAll]_vars

\* ------------------------------------------------------------- claims: classifier

\* The word w occurs somewhere in the text.
Contains(text, w) == \E i \in 1..Len(text) : HasAt(text, i, w)

\* The first position where the word w occurs in a text that contains it.
FirstAt(text, w) == MinOf({i \in 1..Len(text) : HasAt(text, i, w)})

WordJune12 == <<"J","u","n","e"," ","1","2">>

Word12thJune == <<"1","2","t","h"," ","J","u","n","e">>

WordJune31 == <<"J","u","n","e"," ","3","1">>

WordDecember25 == <<"D","e","c","e","m","b","e","r"," ","2","5">>

June12 == [y |-> 2025, m |-> 6, d |-> 12]

\* The table of section 4.2 of the specification, as a function of
\* (hasDate, days_until) alone.
UrgencyTable(hasDate, days_until) ==
    CASE ~hasDate -> << Normal, DescNoDate >>
      [] hasDate /\ days_until = 0 -> << Immediate, DescToday >>
      [] hasDate /\ days_until = 1 -> << Soon, DescTomorrow >>
      [] hasDate /\ days_until > 1 -> << Normal, DescInDays(days_until) >>
      [] hasDate /\ days_until < 0 -> << Normal, DescPassed >>

\* The day of the year 2025 (not a leap year) of a date in it.
DayOfYear2025(date) ==
    << 0, 31, 59, 90, 120, 151, 181, 212, 243, 273, 304, 334 >>[date.m] + date.d

\* C1: whatever the text and the reference date, the classifier's result is the
\* table's row for (a date was resolved, event date - reference date): TODAY at 0,
\* TOMORROW at 1, "in N days" with N the calendar difference above 1, "already
\* passed" below 0, "no specific date found" without a date; within 2025 N is the
\* difference of the days of the year (December 25 against June 11: 197).
C1_UrgencyIsTheTable ==
    IsSome(verdict) =>
        LET v == Unwrap(verdict)
            hasDate == IsSome(v.date)
            days == IF hasDate THEN num_days(Unwrap(v.date), sample.current_date) ELSE 0
        IN  /\ << v.urgency, v.description >> = UrgencyTable(hasDate, days)
            /\ (hasDate /\ sample.current_date.y = 2025 /\ days > 1) =>
                   v.description.args =
                       << DayOfYear2025(Unwrap(v.date)) - DayOfYear2025(sample.current_date) >>

\* C1 witness: "December 25" classified against June 11 of 2025 is Normal, in
\* 197 days.
C1_Witness ==
    /\ IsSome(verdict)
    /\ sample.text = WordDecember25
    /\ sample.current_date = [y |-> 2025, m |-> 6, d |-> 11]
    /\ Unwrap(verdict).urgency = Normal
    /\ Unwrap(verdict).description = DescInDays(197)

\* Pattern A's leftmost match in the text is a month and a day number that are
\* no date of 2025 (June 31, June 0).
MonthDayInvalid(text) ==
    /\ IsSome(month_day_captures(text))
    /\ IsSome(parse_u32(Unwrap(month_day_captures(text)).day))
    /\ \E k \in 1..12 :
          /\ MonthNames[k] = Unwrap(month_day_captures(text)).month
          /\ LET d == Unwrap(parse_u32(Unwrap(month_day_captures(text)).day))
             IN  d < 1 \/ d > DaysInMonth(2025, k)

\* C2 as stated: when the mention pattern A finds is an invalid month/day
\* combination, the extractor returns no date and the classifier returns Normal
\* with the no-date description.
C2_InvalidMentionGivesNoDate ==
    (IsSome(verdict) /\ MonthDayInvalid(sample.text)) =>
        /\ Unwrap(verdict).date = None
        /\ Unwrap(verdict).urgency = Normal
        /\ Unwrap(verdict).description = DescNoDate

\* C2 as amended: when the mention pattern A finds is an invalid month/day
\* combination, nothing is built from it (no clamping) and pattern B is tried:
\* the extractor returns the date of pattern B's leftmost match when there is one
\* and it is a valid date, and no date otherwise; the classifier returns Normal
\* with the no-date description exactly when no date is returned.
C2_InvalidMentionFallsToPatternB ==
    (IsSome(verdict) /\ MonthDayInvalid(sample.text)) =>
        /\ Unwrap(verdict).date = DayMonthDate(sample.text)
        /\ (Unwrap(verdict).description = DescNoDate) <=> (DayMonthDate(sample.text) = None)
        /\ DayMonthDate(sample.text) = None => Unwrap(verdict).urgency = Normal

\* C2 witness: "June 31" alone resolves to no date, Normal, no-date description.
C2_Witness ==
    /\ IsSome(verdict)
    /\ sample.text = WordJune31
    /\ MonthDayInvalid(sample.text)
    /\ Unwrap(verdict).date = None
    /\ Unwrap(verdict).description = DescNoDate

\* C4 as stated: every text that contains "12th June" resolves to 2025-06-12.
C4_Contains12thJune ==
    (IsSome(verdict) /\ Contains(sample.text, Word12thJune)) =>
        Unwrap(verdict).date = Some(June12)

\* C4 as amended: a text that contains "12th June" resolves to 2025-06-12, the
\* date of "June 12", provided pattern A resolves no valid date in the text and no
\* match of pattern B starts before the first "12th June".
C4_First12thJune ==
    ( /\ IsSome(verdict)
      /\ Contains(sample.text, Word12thJune)
      /\ MonthDayDate(sample.text) = None
      /\ MinOf(DayMonthPositions(sample.text)) = FirstAt(sample.text, Word12thJune) ) =>
        /\ Unwrap(verdict).date = Some(June12)
        /\ Unwrap(verdict).date = extract_date_from_text(WordJune12)

\* C4 witness: a text with an invalid pattern-A mention before "12th June"
\* resolves to 2025-06-12.
C4_Witness ==
    /\ IsSome(verdict)
    /\ sample.text = WordJune31 \o Word12thJune
    /\ Unwrap(verdict).date = Some(June12)

\* C5 as stated: every text that contains "June 12" resolves to 2025-06-12.
C5_ContainsJune12 ==
    (IsSome(verdict) /\ Contains(sample.text, WordJune12)) =>
        Unwrap(verdict).date = Some(June12)

\* C5 as amended: a text that contains "June 12" resolves to 2025-06-12 provided
\* no match of pattern A starts before the first "June 12".
C5_FirstJune12 ==
    ( /\ IsSome(verdict)
      /\ Contains(sample.text, WordJune12)
      /\ MinOf(MonthDayPositions(sample.text)) = FirstAt(sample.text, WordJune12) ) =>
        Unwrap(verdict).date = Some(June12)

\* C5 witness: "June 12" followed by another date mention resolves to
\* 2025-06-12.
C5_Witness ==
    /\ IsSome(verdict)
    /\ sample.text = WordJune12 \o <<" ">> \o <<"J","u","n","e"," ","3">>
    /\ Unwrap(verdict).date = Some(June12)

\* ------------------------------------------------------------- claims: tools

EventA == Source("a", "sessions", 1, <<"J","u","n","e"," ","1","2">>)

EventB == Source("b", "", 0, <<"J","u","n","e"," ","3","1">>)

\* C3: every assess call that has returned succeeded, with as many assessments
\* as it was given events, the i-th carrying the i-th event's id; while it runs,
\* the assessments made so far are those of the first events, in order.
C3_OneAssessmentPerEvent ==
    \A t \in Tasks :
        call[t].tool = AssessTimeliness =>
            /\ Len(call[t].results) <= Len(call[t].args)
            /\ \A i \in 1..Len(call[t].results) :
                  call[t].results[i].source_id = call[t].args[i].id
            /\ call[t].pc = "done" =>
                  /\ IsSome(call[t].output)
                  /\ Unwrap(call[t].output).ok
                  /\ Len(Unwrap(call[t].output).value) = Len(call[t].args)
                  /\ \A i \in 1..Len(call[t].args) :
                        Unwrap(call[t].output).value[i].source_id = call[t].args[i].id

\* C3 witness: a call given two events without a parseable date, the same one
\* twice, has returned two assessments.
C3_Witness ==
    \E t \in Tasks :
        /\ call[t].tool = AssessTimeliness
        /\ call[t].pc = "done"
        /\ call[t].args = << EventB, EventB >>
        /\ Unwrap(call[t].output).ok
        /\ Len(Unwrap(call[t].output).value) = 2

\* The body has the shape the search tool expects.
BodyHasShape(body) ==
    /\ body.json
    /\ body.answer
    /\ body.metadata
    /\ \A i \in 1..Len(body.sources) :
          body.sources[i].id # None /\ body.sources[i].text_chunk # None

\* C6: a search call sends at most one request and ends in an error without
\* sources or in the sources; it is an error when the endpoint URL is not set
\* (and then nothing was sent), when the transport failed, when the status is
\* outside 200..299, when the body has not the expected shape, each with its own
\* error; it is the sources, in the body's order, only when every step succeeded.
C6_SearchOutcome ==
    \A t \in Tasks :
        call[t].tool = QueryVivatechAPI =>
            /\ call[t].sent <= 1
            /\ call[t].pc = "done" <=> IsSome(call[t].output)
            /\ call[t].pc = "done" =>
                  LET o == Unwrap(call[t].output)
                      r == call[t].response
                  IN  /\ \/ o.ok /\ o.error = ""
                         \/ ~o.ok /\ o.value = << >> /\ o.error # ""
                      /\ env.VIVATECH_API_URL = None =>
                            /\ ~o.ok
                            /\ call[t].sent = 0
                            /\ o.error \in {"VIVATECH_API_URL not found in environment",
                                            "Failed to create HTTP client"}
                      /\ (r # None /\ Unwrap(r).transport # "ok") =>
                            ~o.ok /\ o.error = "HTTP request failed"
                      /\ (r # None /\ Unwrap(r).transport = "ok"
                             /\ Unwrap(r).status \notin 200..299) =>
                            ~o.ok /\ o.error = "API returned error status"
                      /\ (r # None /\ Unwrap(r).transport = "ok"
                             /\ Unwrap(r).status \in 200..299
                             /\ ~BodyHasShape(Unwrap(r).body)) =>
                            ~o.ok /\ o.error = "Failed to parse JSON response"
                      /\ o.ok =>
                            /\ env.VIVATECH_API_URL # None
                            /\ call[t].sent = 1
                            /\ r # None
                            /\ Unwrap(r).transport = "ok"
                            /\ Unwrap(r).status \in 200..299
                            /\ BodyHasShape(Unwrap(r).body)
                            /\ Len(o.value) = Len(Unwrap(r).body.sources)
                            /\ \A i \in 1..Len(o.value) :
                                  /\ Some(o.value[i].id) = Unwrap(r).body.sources[i].id
                                  /\ Some(o.value[i].text_chunk) =
                                         Unwrap(r).body.sources[i].text_chunk

\* C6 witness: a search call made without an endpoint URL has ended in the
\* URL's error, and sent nothing.
C6_Witness ==
    \E t \in Tasks :
        /\ call[t].tool = QueryVivatechAPI
        /\ call[t].pc = "done"
        /\ env.VIVATECH_API_URL = None
        /\ Unwrap(call[t].output) = Err("VIVATECH_API_URL not found in environment")
        /\ call[t].sent = 0

\* The reference date as the specification gives it: the override when
\* CONFERENCE_DATE is set and is a date written YYYY-MM-DD, else 2025-06-11.
ReferenceDate(e) ==
    IF /\ e.CONFERENCE_DATE # None
       /\ Unwrap(e.CONFERENCE_DATE).shape = "Y-M-D"
       /\ Unwrap(e.CONFERENCE_DATE).m \in 1..12
       /\ Unwrap(e.CONFERENCE_DATE).d \in
              1..DaysInMonth(Unwrap(e.CONFERENCE_DATE).y, Unwrap(e.CONFERENCE_DATE).m)
    THEN [y |-> Unwrap(e.CONFERENCE_DATE).y, m |-> Unwrap(e.CONFERENCE_DATE).m,
          d |-> Unwrap(e.CONFERENCE_DATE).d]
    ELSE [y |-> 2025, m |-> 6, d |-> 11]

\* C7: the date every assess call works with is the override when CONFERENCE_DATE
\* is set and valid, and 2025-06-11 when it is not set or not valid; all calls
\* work with the same date, whenever they started.
C7_ReferenceDate ==
    /\ \A t \in Tasks :
          IsSome(call[t].date) => Unwrap(call[t].date) = ReferenceDate(env)
    /\ \A t, u \in Tasks :
          (IsSome(call[t].date) /\ IsSome(call[u].date)) => call[t].date = call[u].date

\* C7 witness: an assess call works with the override 2025-06-12, set from the
\* secret store.
C7_Witness ==
    \E t \in Tasks :
        /\ secret_store.CONFERENCE_DATE = Some(DateText(2025, 6, 12))
        /\ call[t].date = Some([y |-> 2025, m |-> 6, d |-> 12])
        /\ call[t].pc = "done"

\* What an assess call returns when it runs alone: one assessment per event.
AssessAlone(events, e) ==
    Ok([i \in 1..Len(events) |->
           TimelinessResult(events[i],
                            analyze_event_urgency(events[i].text_chunk, ReferenceDate(e)))])

\* What a search call returns when it runs alone and the network gives it resp.
SearchAlone(resp) ==
    IF resp.transport # "ok" THEN Err("HTTP request failed")
    ELSE IF resp.status \notin 200..299 THEN Err("API returned error status")
    ELSE IF ~BodyHasShape(resp.body) THEN Err("Failed to parse JSON response")
    ELSE Ok([i \in 1..Len(resp.body.sources) |-> SourceOf(resp.body.sources[i])])

\* Every finished call returned what it returns when it runs alone.
ResultsAsAlone ==
    \A t \in Tasks :
        call[t].pc = "done" =>
            IF call[t].tool = AssessTimeliness
            THEN Unwrap(call[t].output) = AssessAlone(call[t].args, env)
            ELSE IF call[t].response # None
            THEN Unwrap(call[t].output) = SearchAlone(Unwrap(call[t].response))
            ELSE \/ Unwrap(call[t].output) = Err("Failed to create HTTP client")
                 \/ /\ env.VIVATECH_API_URL = None
                    /\ Unwrap(call[t].output) = Err("VIVATECH_API_URL not found in environment")

\* C8: once configure_api_keys has run, no step of any request handler and no
\* step of any tool call writes the environment or the secret store, and every
\* call, whatever the other task does meanwhile, returns what it returns alone on
\* the same input (and, for a search, the same response).
C8_CallsShareNothing ==
    /\ [](ResultsAsAlone)
    /\ [][phase # "init" => (env' = env /\ secret_store' = secret_store)]_vars

\* C8 witness: while the service serves, an assess call has returned and the
\* search call the other task's agent made awaits its response.
C8_Witness ==
    /\ phase = "serving"
    /\ call["t1"].tool = AssessTimeliness
    /\ call["t1"].pc = "done"
    /\ call["t1"].args = << EventA, EventB >>
    /\ req["t2"].pc = "planning"
    /\ call["t2"].tool = QueryVivatechAPI
    /\ call["t2"].pc = "awaiting"

\* ------------------------------------------------------------- claims: service

\* C9: the service serves, and a task handles a request or runs a tool call, only
\* with the endpoint URL set; with it unset after configure_api_keys the startup
\* ends in the panic and no request is handled.
C9_ServingNeedsUrl ==
    /\ phase = "serving" => env.VIVATECH_API_URL # None
    /\ (phase # "init" /\ env.VIVATECH_API_URL = None) => phase \in {"configured", "panicked"}
    /\ \A t \in Tasks :
          (req[t].pc # "idle" \/ call[t].pc # "idle") =>
              phase = "serving" /\ env.VIVATECH_API_URL # None

\* C9 witness: with the OpenAI key set and the endpoint URL unset the startup
\* has panicked.
C9_Witness ==
    /\ phase = "panicked"
    /\ env.OPENAI_API_KEY # None
    /\ env.VIVATECH_API_URL = None

\* C10 as stated: the planning agent of every request has both tools, the search
\* tool and the assess-timeliness tool.
C10_BothToolsRegistered ==
    \A t \in Tasks :
        req[t].pc = "planning" =>
            {QueryVivatechAPI, AssessTimeliness} \subseteq req[t].tools

====
